---- MODULE Spec2Model ----
(***************************************************************************)
(* Model of SNARL_import.py, the hot-staging validator: the deployment     *)
(* manifest is loaded into a lookup table, every regular file below an     *)
(* allowed sub-folder is matched against it by a key derived from the      *)
(* folder name, a JSON side-car is written per matched file and an HTML    *)
(* report is written at the end.                                           *)
(*                                                                         *)
(* Strings on which the program does case conversion, concatenation or     *)
(* suffix splitting are sequences of one-character strings.                *)
(***************************************************************************)
EXTENDS Integers, Sequences, FiniteSets, TLC

VARIABLES
    csv_exists,        \* forms/20250610_deployments.csv is present
    csv_has_keys,      \* its header has device_serial and deployment_id
    csv_rows,          \* its data rows, in file order
    tree,              \* directory entries below the visit root
    json_dir_exists,   \* json_meta/ is present
    sidecars,          \* json_meta/: file name -> side-car content
    report,            \* staging_report.html: <<>> absent, <<r>> content r
    pc,                \* position of the process in main()
    deployments,       \* the lookup dict of main()
    total_files,
    unmatched_files,
    written_sidecars,
    subs_left,         \* elements of ALLOWED_DIRS the outer loop has not yet taken
    cur_sub,           \* the outer loop's sub (<<>> before the first)
    seen,              \* entries the rglob iterators have yielded in this run
    exit_status,       \* "running" | "success" | "failure"
    exit_cause,        \* which exit path ended the process
    report_writes,     \* writes of the report by the current process
    run,               \* 1 for the first invocation, 2 for a re-run
    first_sidecars     \* json_meta/ as the first invocation left it

vars == <<csv_exists, csv_has_keys, csv_rows, tree, json_dir_exists, sidecars,
          report, pc, deployments, total_files, unmatched_files,
          written_sidecars, subs_left, cur_sub, seen, exit_status, exit_cause,
          report_writes, run, first_sidecars>>

inputs == <<csv_exists, csv_has_keys, csv_rows, tree>>

-----------------------------------------------------------------------------
(* Bounds of the model *)

MaxRows == 2
MaxEntries == 3

-----------------------------------------------------------------------------
(* Character strings *)

LowerLetters == <<"a","b","c","d","e","f","g","h","i","j","k","l","m",
                  "n","o","p","q","r","s","t","u","v","w","x","y","z">>
UpperLetters == <<"A","B","C","D","E","F","G","H","I","J","K","L","M",
                  "N","O","P","Q","R","S","T","U","V","W","X","Y","Z">>
Digits == {"0","1","2","3","4","5","6","7","8","9"}

UpperChar(c) ==
    IF \E i \in 1..Len(LowerLetters) : LowerLetters[i] = c
    THEN UpperLetters[CHOOSE i \in 1..Len(LowerLetters) : LowerLetters[i] = c]
    ELSE c

\* the characters of the strings of the model
Chars == { LowerLetters[i] : i \in 1..Len(LowerLetters) }
           \cup { UpperLetters[i] : i \in 1..Len(UpperLetters) }
           \cup Digits \cup {"_", ".", "/", "-", "+"}

UpperTable == [c \in Chars |-> UpperChar(c)]

\* str.upper()
Upper(s) == [i \in 1..Len(s) |-> UpperTable[s[i]]]

-----------------------------------------------------------------------------
(* USER CONFIG *)

SITE_ID == <<"S","N","A","R","L">>
VISIT_DATE == <<"2","0","2","5","0","6","1","0">>
bird_01 == <<"b","i","r","d","_","0","1">>
bat_01 == <<"b","a","t","_","0","1">>
trad_01 == <<"t","r","a","d","_","0","1">>
drift_01 == <<"d","r","i","f","t","_","0","1">>
ALLOWED_DIRS == {bird_01, bat_01, trad_01, drift_01}
PreviewLen == 10

-----------------------------------------------------------------------------
(* Paths *)

\* index of the last "." of a file name, 0 when it has none (str.rfind + 1)
LastDot(name) ==
    IF \E i \in 1..Len(name) : name[i] = "."
    THEN CHOOSE i \in 1..Len(name) :
            name[i] = "." /\ \A j \in (i+1)..Len(name) : name[j] # "."
    ELSE 0

\* PurePath.stem: the final component without its last suffix; a leading or a
\* trailing dot starts no suffix
Stem(name) ==
    IF 1 < LastDot(name) /\ LastDot(name) < Len(name)
    THEN SubSeq(name, 1, LastDot(name) - 1)
    ELSE name

\* fp.relative_to(visit_root), as its parts
RelParts(e) == <<e.sub>> \o e.dirs \o <<e.name>>

RECURSIVE JoinSlash(_)
JoinSlash(parts) ==
    IF Len(parts) = 0 THEN <<>>
    ELSE IF Len(parts) = 1 THEN parts[1]
    ELSE parts[1] \o <<"/">> \o JoinSlash(Tail(parts))

\* rel.as_posix()
AsPosix(e) == JoinSlash(RelParts(e))

\* json_dir / (fp.stem + ".json"), as the file name inside json_meta/
SidecarName(e) == Stem(e.name) \o <<".","j","s","o","n">>

-----------------------------------------------------------------------------
(* sha256sum *)

\* open(fpath, "rb") or a read raises OSError
Sha256Raises(e) == ~e.readable

\* the digest is a function of the bytes alone; distinct contents of the
\* model have distinct digests
sha256sum(e) == <<"sha256", e.content>>

-----------------------------------------------------------------------------
(* float(), on the literals [sign] digits [. digits] and [sign] . digits *)

Unsigned(s) == IF Len(s) > 0 /\ s[1] \in {"+", "-"} THEN Tail(s) ELSE s

IsFloat(s) ==
    LET b == Unsigned(s) IN
    /\ \A i \in 1..Len(b) : b[i] \in Digits \cup {"."}
    /\ Cardinality({i \in 1..Len(b) : b[i] = "."}) <= 1
    /\ \E i \in 1..Len(b) : b[i] \in Digits

Float(s) ==
    LET b == Unsigned(s)
        d == IF \E i \in 1..Len(b) : b[i] = "." THEN LastDot(b) ELSE Len(b) + 1
    IN  [neg  |-> Len(s) > 0 /\ s[1] = "-",
         int  |-> SubSeq(b, 1, d - 1),
         frac |-> SubSeq(b, d + 1, Len(b))]

-----------------------------------------------------------------------------
(* build_stub *)

TwoDigits == <<"00","01","02","03","04","05","06","07","08","09">>

\* datetime.utcfromtimestamp(t).isoformat() + "Z" for whole seconds t < 10
IsoUtcZ(t) == <<"1970-01-01T00:00:", TwoDigits[t + 1], "Z">>

\* float(row["latitude"]) or float(row["longitude"]) raises ValueError
BuildStubRaises(row) == ~IsFloat(row.latitude) \/ ~IsFloat(row.longitude)

build_stub(row, e, checksum) ==
    [site_id         |-> SITE_ID,
     deployment_id   |-> row.deployment_id,
     device_serial   |-> row.device_serial,
     sensor_type     |-> row.sensor_type,
     latitude        |-> Float(row.latitude),
     longitude       |-> Float(row.longitude),
     start_utc       |-> row.start_utc,
     end_utc         |-> row.end_utc,
     timestamp_file  |-> IsoUtcZ(e.mtime),
     checksum_sha256 |-> checksum,
     file_relpath    |-> AsPosix(e),
     import_version  |-> "0.1"]

-----------------------------------------------------------------------------
(* load_deployments *)

\* a loader that upper-cases both parts of the key
RowKey_UpperBoth(row) == <<Upper(row.device_serial), Upper(row.deployment_id)>>

RowKey(row) == <<Upper(row.device_serial), row.deployment_id>>

\* look[key] = row
DictPut(look, key, row) ==
    [k \in DOMAIN look \cup {key} |-> IF k = key THEN row ELSE look[k]]

\* a loader that keeps the first row of a key
StoreRow_KeepFirst(look, row) ==
    IF RowKey(row) \in DOMAIN look THEN look ELSE DictPut(look, RowKey(row), row)

\* key = (...); look[key] = row
StoreRow(look, row) == DictPut(look, RowKey(row), row)

RECURSIVE LoadRows(_, _)
LoadRows(rows, look) ==
    IF rows = <<>> THEN look
    ELSE LoadRows(Tail(rows), StoreRow(look, Head(rows)))

EmptyDict == [k \in {} |-> <<>>]

load_deployments(rows) == LoadRows(rows, EmptyDict)

\* row["device_serial"] raises KeyError on the first data row when the header
\* lacks the key columns
LoadRaises(has_keys, rows) == ~has_keys /\ Len(rows) > 0

-----------------------------------------------------------------------------
(* Key derivation of main() *)

serial_guess(sub) == Upper(sub)
dep_id_guess(sub) == SITE_ID \o <<"_">> \o serial_guess(sub) \o <<"_">> \o VISIT_DATE
KeyOf(sub) == <<serial_guess(sub), dep_id_guess(sub)>>

\* deployments.get(key) is not None
HasRow(look, key) == key \in DOMAIN look

-----------------------------------------------------------------------------
(* Step 5: the content of the HTML report *)

Min(a, b) == IF a <= b THEN a ELSE b

ReportOf(total, written, unmatched) ==
    IF unmatched = <<>>
    THEN [good |-> TRUE, total |-> total, written |-> written]
    ELSE [good |-> FALSE, total |-> total, written |-> written,
          unmatched_count |-> Len(unmatched),
          preview |-> SubSeq(unmatched, 1, Min(PreviewLen, Len(unmatched)))]

-----------------------------------------------------------------------------
(* The inputs of a run: manifests and directory trees *)

BIRD_01 == <<"B","I","R","D","_","0","1">>
BAT_01 == <<"B","A","T","_","0","1">>
owl_02 == <<"o","w","l","_","0","2">>
DepBird == <<"S","N","A","R","L","_","B","I","R","D","_","0","1","_",
             "2","0","2","5","0","6","1","0">>
DepBirdLower == <<"s","n","a","r","l","_","b","i","r","d","_","0","1","_",
                  "2","0","2","5","0","6","1","0">>
DepBat == <<"S","N","A","R","L","_","B","A","T","_","0","1","_",
            "2","0","2","5","0","6","1","0">>
GoodLat == <<"3","7",".","6">>
BadLat == <<"n","/","a">>
GoodLon == <<"-","1","1","8",".","8">>

CsvRow(serial, dep, sensor, lat) ==
    [device_serial |-> serial, deployment_id |-> dep, sensor_type |-> sensor,
     latitude |-> lat, longitude |-> GoodLon,
     start_utc |-> "2025-06-01T00:00:00Z", end_utc |-> "2025-06-10T00:00:00Z"]

RowUniverse ==
    { CsvRow(bird_01, DepBird, "audio", GoodLat),
      CsvRow(BIRD_01, DepBird, "camera", GoodLat),
      CsvRow(BIRD_01, DepBirdLower, "audio", GoodLat),
      CsvRow(BAT_01, DepBat, "bat", GoodLat),
      CsvRow(BAT_01, DepBat, "bat", BadLat) }

Manifests == UNION { [1..n -> RowUniverse] : n \in 0..MaxRows }

a_wav == <<"a",".","w","a","v">>
a_jpg == <<"a",".","j","p","g">>
b_wav == <<"b",".","w","a","v">>
deep == <<"d","e","e","p">>
empty == <<"e","m","p","t","y">>

Entry(sub, dirs, name, is_file, readable, content, mtime) ==
    [sub |-> sub, dirs |-> dirs, name |-> name, is_file |-> is_file,
     readable |-> readable, content |-> content, mtime |-> mtime]

EntryUniverse ==
    { Entry(bird_01, <<>>, a_wav, TRUE, TRUE, "bytes1", 1),
      Entry(bird_01, <<deep>>, a_jpg, TRUE, TRUE, "bytes2", 2),
      Entry(bird_01, <<>>, empty, FALSE, TRUE, "", 3),
      Entry(bat_01, <<>>, a_wav, TRUE, TRUE, "bytes3", 4),
      Entry(bat_01, <<>>, b_wav, TRUE, FALSE, "bytes4", 5),
      Entry(owl_02, <<>>, a_wav, TRUE, TRUE, "bytes1", 6) }

Trees == { t \in SUBSET EntryUniverse : Cardinality(t) <= MaxEntries }

-----------------------------------------------------------------------------
(* The process *)

NoSub == <<>>

\* what the rglob iterator of the current sub has not yet yielded
Pending == { e \in tree : e.sub = cur_sub } \ seen

FreshProcess ==
    /\ pc = "start"
    /\ deployments = EmptyDict
    /\ total_files = 0
    /\ unmatched_files = <<>>
    /\ written_sidecars = 0
    /\ subs_left = {}
    /\ cur_sub = NoSub
    /\ seen = {}
    /\ exit_status = "running"
    /\ exit_cause = "none"
    /\ report_writes = 0

Init ==
    /\ csv_exists \in BOOLEAN
    /\ csv_has_keys \in BOOLEAN
    /\ csv_rows \in Manifests
    /\ ~csv_exists => (~csv_has_keys /\ csv_rows = <<>>)
    /\ tree \in Trees
    /\ json_dir_exists = FALSE
    /\ sidecars = EmptyDict
    /\ report = <<>>
    /\ FreshProcess
    /\ run = 1
    /\ first_sidecars = EmptyDict

Exit(status, cause) ==
    /\ pc' = "exited"
    /\ exit_status' = status
    /\ exit_cause' = cause

\* sys.exit("ERROR  Deployment CSV missing ...")
AbortCsvMissing ==
    /\ pc = "start"
    /\ ~csv_exists
    /\ Exit("failure", "csv_missing")
    /\ UNCHANGED <<inputs, json_dir_exists, sidecars, report, deployments,
                   total_files, unmatched_files, written_sidecars, subs_left,
                   cur_sub, seen, report_writes, run, first_sidecars>>

\* a main() that makes json_meta/ before it loads the manifest
AbortLoadError_MkdirFirst ==
    /\ pc = "start"
    /\ csv_exists
    /\ LoadRaises(csv_has_keys, csv_rows)
    /\ json_dir_exists' = TRUE
    /\ Exit("failure", "KeyError")
    /\ UNCHANGED <<inputs, sidecars, report, deployments,
                   total_files, unmatched_files, written_sidecars, subs_left,
                   cur_sub, seen, report_writes, run, first_sidecars>>

\* load_deployments raises; the exception leaves main()
AbortLoadError ==
    /\ pc = "start"
    /\ csv_exists
    /\ LoadRaises(csv_has_keys, csv_rows)
    /\ Exit("failure", "KeyError")
    /\ UNCHANGED <<inputs, json_dir_exists, sidecars, report, deployments,
                   total_files, unmatched_files, written_sidecars, subs_left,
                   cur_sub, seen, report_writes, run, first_sidecars>>

\* the manifest loads; json_meta/ is made and the counters are set up
LoadAndPrepare ==
    /\ pc = "start"
    /\ csv_exists
    /\ ~LoadRaises(csv_has_keys, csv_rows)
    /\ deployments' = load_deployments(csv_rows)
    /\ json_dir_exists' = TRUE
    /\ total_files' = 0
    /\ unmatched_files' = <<>>
    /\ written_sidecars' = 0
    /\ subs_left' = ALLOWED_DIRS
    /\ cur_sub' = NoSub
    /\ pc' = "enum"
    /\ UNCHANGED <<inputs, sidecars, report, seen, exit_status, exit_cause,
                   report_writes, run, first_sidecars>>

\* for sub in ALLOWED_DIRS: the set's iteration order is not fixed
NextSub ==
    /\ pc = "enum"
    /\ Pending = {}
    /\ \E s \in subs_left :
          /\ cur_sub' = s
          /\ subs_left' = subs_left \ {s}
    /\ UNCHANGED <<inputs, json_dir_exists, sidecars, report, pc, deployments,
                   total_files, unmatched_files, written_sidecars, seen,
                   exit_status, exit_cause, report_writes, run, first_sidecars>>

\* if not fp.is_file(): continue
SkipNonFile(e) ==
    /\ pc = "enum"
    /\ e \in Pending
    /\ ~e.is_file
    /\ seen' = seen \cup {e}
    /\ UNCHANGED <<inputs, json_dir_exists, sidecars, report, pc, deployments,
                   total_files, unmatched_files, written_sidecars, subs_left,
                   cur_sub, exit_status, exit_cause, report_writes, run,
                   first_sidecars>>

\* row is None: the path is appended to unmatched_files
ClassifyUnmatched(e) ==
    /\ pc = "enum"
    /\ e \in Pending
    /\ e.is_file
    /\ ~HasRow(deployments, KeyOf(cur_sub))
    /\ seen' = seen \cup {e}
    /\ total_files' = total_files + 1
    /\ unmatched_files' = Append(unmatched_files, AsPosix(e))
    /\ UNCHANGED <<inputs, json_dir_exists, sidecars, report, pc, deployments,
                   written_sidecars, subs_left, cur_sub, exit_status,
                   exit_cause, report_writes, run, first_sidecars>>

\* a row is found and sha256sum raises OSError, which leaves main()
ChecksumFails(e) ==
    /\ pc = "enum"
    /\ e \in Pending
    /\ e.is_file
    /\ HasRow(deployments, KeyOf(cur_sub))
    /\ Sha256Raises(e)
    /\ seen' = seen \cup {e}
    /\ total_files' = total_files + 1
    /\ Exit("failure", "OSError")
    /\ UNCHANGED <<inputs, json_dir_exists, sidecars, report, deployments,
                   unmatched_files, written_sidecars, subs_left, cur_sub,
                   report_writes, run, first_sidecars>>

\* a row is found, the file is hashed and build_stub raises ValueError, which
\* leaves main()
BuildStubFails(e) ==
    /\ pc = "enum"
    /\ e \in Pending
    /\ e.is_file
    /\ HasRow(deployments, KeyOf(cur_sub))
    /\ ~Sha256Raises(e)
    /\ BuildStubRaises(deployments[KeyOf(cur_sub)])
    /\ seen' = seen \cup {e}
    /\ total_files' = total_files + 1
    /\ Exit("failure", "ValueError")
    /\ UNCHANGED <<inputs, json_dir_exists, sidecars, report, deployments,
                   unmatched_files, written_sidecars, subs_left, cur_sub,
                   report_writes, run, first_sidecars>>

\* a row is found: the side-car is written (over any file of that name)
WriteSidecar(e) ==
    /\ pc = "enum"
    /\ e \in Pending
    /\ e.is_file
    /\ HasRow(deployments, KeyOf(cur_sub))
    /\ ~Sha256Raises(e)
    /\ ~BuildStubRaises(deployments[KeyOf(cur_sub)])
    /\ seen' = seen \cup {e}
    /\ total_files' = total_files + 1
    /\ sidecars' = DictPut(sidecars, SidecarName(e),
                           build_stub(deployments[KeyOf(cur_sub)], e, sha256sum(e)))
    /\ written_sidecars' = written_sidecars + 1
    /\ UNCHANGED <<inputs, json_dir_exists, report, pc, deployments,
                   unmatched_files, subs_left, cur_sub, exit_status,
                   exit_cause, report_writes, run, first_sidecars>>

\* a reporter that gives up on unmatched files instead of reporting them
WriteReport_SkipOnUnmatched ==
    /\ pc = "enum"
    /\ Pending = {}
    /\ subs_left = {}
    /\ report' = IF unmatched_files = <<>>
                 THEN <<ReportOf(total_files, written_sidecars, unmatched_files)>>
                 ELSE report
    /\ report_writes' = IF unmatched_files = <<>> THEN report_writes + 1
                        ELSE report_writes
    /\ pc' = "decide"
    /\ UNCHANGED <<inputs, json_dir_exists, sidecars, deployments, total_files,
                   unmatched_files, written_sidecars, subs_left, cur_sub, seen,
                   exit_status, exit_cause, run, first_sidecars>>

\* both loops are over: the report is written
WriteReport ==
    /\ pc = "enum"
    /\ Pending = {}
    /\ subs_left = {}
    /\ report' = <<ReportOf(total_files, written_sidecars, unmatched_files)>>
    /\ report_writes' = report_writes + 1
    /\ pc' = "decide"
    /\ UNCHANGED <<inputs, json_dir_exists, sidecars, deployments, total_files,
                   unmatched_files, written_sidecars, subs_left, cur_sub, seen,
                   exit_status, exit_cause, run, first_sidecars>>

\* good: main() returns
ExitSuccess ==
    /\ pc = "decide"
    /\ unmatched_files = <<>>
    /\ Exit("success", "returned")
    /\ UNCHANGED <<inputs, json_dir_exists, sidecars, report, deployments,
                   total_files, unmatched_files, written_sidecars, subs_left,
                   cur_sub, seen, report_writes, run, first_sidecars>>

\* not good: sys.exit("Fix blocking issues ...")
ExitBlocked ==
    /\ pc = "decide"
    /\ unmatched_files # <<>>
    /\ Exit("failure", "unmatched")
    /\ UNCHANGED <<inputs, json_dir_exists, sidecars, report, deployments,
                   total_files, unmatched_files, written_sidecars, subs_left,
                   cur_sub, seen, report_writes, run, first_sidecars>>

\* the script is started again in the same visit folder; the files on disk stay
Rerun ==
    /\ pc = "exited"
    /\ run = 1
    /\ run' = 2
    /\ first_sidecars' = sidecars
    /\ pc' = "start"
    /\ deployments' = EmptyDict
    /\ total_files' = 0
    /\ unmatched_files' = <<>>
    /\ written_sidecars' = 0
    /\ subs_left' = {}
    /\ cur_sub' = NoSub
    /\ seen' = {}
    /\ exit_status' = "running"
    /\ exit_cause' = "none"
    /\ report_writes' = 0
    /\ UNCHANGED <<inputs, json_dir_exists, sidecars, report>>

Next ==
    \/ AbortCsvMissing
    \/ AbortLoadError
    \/ LoadAndPrepare
    \/ NextSub
    \/ \E e \in tree : SkipNonFile(e)
    \/ \E e \in tree : ClassifyUnmatched(e)
    \/ \E e \in tree : ChecksumFails(e)
    \/ \E e \in tree : BuildStubFails(e)
    \/ \E e \in tree : WriteSidecar(e)
    \/ WriteReport
    \/ ExitSuccess
    \/ ExitBlocked

Spec == Init /\ [][Next]_vars

NextRerun == Next \/ Rerun

SpecRerun == Init /\ [][NextRerun]_vars

-----------------------------------------------------------------------------
(* Vocabulary of the properties *)

Range(q) == { q[i] : i \in 1..Len(q) }

\* the process has ended
Terminated == pc = "exited"

\* both loops ran to their end
EnumerationFinished ==
    \/ pc = "decide"
    \/ pc = "exited" /\ exit_cause \in {"returned", "unmatched"}

\* the regular files the loops have taken so far
SeenFiles == { e \in seen : e.is_file }

\* the regular files below the allowed sub-folders
CandidateFiles == { e \in tree : e.is_file /\ e.sub \in ALLOWED_DIRS }

IsUnmatched(e) == AsPosix(e) \in Range(unmatched_files)

\* the manifest is there and every data row has its key columns
ManifestLoadable == csv_exists /\ (csv_has_keys \/ csv_rows = <<>>)

\* the deployment id the naming convention gives a sub-folder
ExpectedDepId(sub) == SITE_ID \o <<"_">> \o Upper(sub) \o <<"_">> \o VISIT_DATE

\* the manifest rows a sub-folder's files resolve to
RowsFor(sub) ==
    { i \in 1..Len(csv_rows) :
        /\ Upper(csv_rows[i].device_serial) = Upper(sub)
        /\ csv_rows[i].deployment_id = ExpectedDepId(sub) }

BadRow(i) == ~IsFloat(csv_rows[i].latitude) \/ ~IsFloat(csv_rows[i].longitude)

\* the side-car now in json_meta/ describes e
HasOwnSidecar(e) ==
    /\ SidecarName(e) \in DOMAIN sidecars
    /\ sidecars[SidecarName(e)].file_relpath = AsPosix(e)

-----------------------------------------------------------------------------
(* Properties *)

\* C1: every file the loops have taken is either Matched (side-car written,
\* written_sidecars incremented) or Unmatched (path appended), never both and
\* never neither, so total_files = written_sidecars + len(unmatched_files).
C1_ExactlyOneClass ==
    /\ total_files = Cardinality(SeenFiles)
    /\ total_files = written_sidecars + Len(unmatched_files)
    /\ \A e \in SeenFiles : IsUnmatched(e) \/ SidecarName(e) \in DOMAIN sidecars

\* C2: once enumeration has finished, the side-cars in json_meta/ correspond
\* one to one to the matched files: each matched file has a side-car that
\* describes it, each side-car describes a matched file, and their number is
\* written_sidecars.
C2_OneSidecarPerMatched ==
    EnumerationFinished =>
        /\ Cardinality(DOMAIN sidecars) = written_sidecars
        /\ \A e \in SeenFiles : ~IsUnmatched(e) => HasOwnSidecar(e)
        /\ \A n \in DOMAIN sidecars :
              \E e \in SeenFiles : ~IsUnmatched(e) /\ n = SidecarName(e)
                                   /\ sidecars[n].file_relpath = AsPosix(e)

\* C3: a run ends with a failure indication if and only if its unmatched count
\* is nonzero or the manifest could not be loaded.
C3_FailureIffUnmatchedOrNoManifest ==
    Terminated =>
        (exit_status = "failure" <=> (unmatched_files # <<>> \/ ~ManifestLoadable))

\* C4: when the manifest is absent or cannot be loaded, the run fails before
\* any file is enumerated: no side-car, no json_meta/, no report.
C4_NoOutputWithoutManifest ==
    ~ManifestLoadable =>
        /\ pc \in {"start", "exited"}
        /\ Terminated => exit_status = "failure"
        /\ seen = {} /\ total_files = 0 /\ written_sidecars = 0
        /\ sidecars = EmptyDict
        /\ ~json_dir_exists
        /\ report = <<>> /\ report_writes = 0

C4_Witness ==
    /\ Terminated
    /\ csv_exists /\ ~ManifestLoadable
    /\ CandidateFiles # {}

\* C5: a manifest row with a non-numeric latitude or longitude does not abort
\* the run, and every file resolving to such a row is classified Unmatched.
C5_BadRowMeansUnmatched ==
    /\ exit_cause # "ValueError"
    /\ \A e \in SeenFiles :
          (RowsFor(e.sub) # {} /\ \A i \in RowsFor(e.sub) : BadRow(i))
              => IsUnmatched(e)

\* C6: a matched file that cannot be read does not abort the run: it gets no
\* side-car, the other files are still enumerated and the report is written.
C6_UnreadableFileRecovered ==
    /\ exit_cause # "OSError"
    /\ (Terminated /\ ManifestLoadable
           /\ \E e \in CandidateFiles : ~e.readable /\ RowsFor(e.sub) # {})
          => (CandidateFiles \subseteq seen /\ report_writes = 1)

\* C7: a second run on the same tree and manifest leaves json_meta/ with the
\* same files and the same contents as the first run left it.
C7_RerunSameSidecars ==
    (run = 2 /\ Terminated) => sidecars = first_sidecars

\* C8: a file is Unmatched exactly when no manifest row has the upper-cased
\* serial of its sub-folder together with, character for character, the
\* deployment id SITE_ID_SERIAL_VISIT_DATE; the other files took the matched
\* branch.
C8_ExactKeyMatch ==
    \A e \in SeenFiles : IsUnmatched(e) <=> RowsFor(e.sub) = {}

C8_Witness ==
    \E e \in SeenFiles :
        /\ IsUnmatched(e)
        /\ \E i \in 1..Len(csv_rows) :
              /\ Upper(csv_rows[i].device_serial) = Upper(e.sub)
              /\ csv_rows[i].deployment_id # ExpectedDepId(e.sub)
              /\ Upper(csv_rows[i].deployment_id) = ExpectedDepId(e.sub)

\* C9: the report is written once, after the last file and before the exit
\* status is decided, also when files are unmatched, and it says "passed"
\* exactly when nothing is unmatched.
C9_ReportOnceAfterEnumeration ==
    /\ report_writes <= 1
    /\ pc \in {"start", "enum"} => report_writes = 0
    /\ pc = "decide" => exit_status = "running"
    /\ EnumerationFinished =>
          /\ report_writes = 1
          /\ CandidateFiles \subseteq seen
          /\ Len(report) = 1
          /\ report[1].good <=> Len(unmatched_files) = 0
          /\ report[1].total = total_files
          /\ report[1].written = written_sidecars
          /\ ~report[1].good => report[1].unmatched_count = Len(unmatched_files)
          /\ total_files = 0 => (report[1].good /\ report[1].written = 0)
    /\ Terminated =>
          (exit_status = "success" <=> (report_writes = 1 /\ report[1].good))

C9_Witness ==
    /\ Terminated
    /\ exit_cause = "unmatched"
    /\ report_writes = 1
    /\ written_sidecars > 0

\* C10: every side-car carries the deployment id synthesized for its file's
\* sub-folder, a serial equal to the sub-folder name up to case, and the fields
\* of the last manifest row with that key.
C10_SidecarTraceable ==
    \A n \in DOMAIN sidecars :
        \E e \in CandidateFiles :
            LET d == sidecars[n]
                last == CHOOSE i \in RowsFor(e.sub) : \A j \in RowsFor(e.sub) : j <= i
            IN  /\ n = SidecarName(e)
                /\ d.file_relpath = AsPosix(e)
                /\ d.checksum_sha256 = sha256sum(e)
                /\ d.deployment_id = ExpectedDepId(e.sub)
                /\ Upper(d.device_serial) = Upper(e.sub)
                /\ RowsFor(e.sub) # {}
                /\ d.device_serial = csv_rows[last].device_serial
                /\ d.sensor_type = csv_rows[last].sensor_type
                /\ d.latitude = Float(csv_rows[last].latitude)
                /\ d.longitude = Float(csv_rows[last].longitude)
                /\ d.start_utc = csv_rows[last].start_utc
                /\ d.end_utc = csv_rows[last].end_utc

C10_Witness ==
    \E n \in DOMAIN sidecars :
        \E e \in SeenFiles :
            /\ HasOwnSidecar(e) /\ n = SidecarName(e)
            /\ \E i, j \in RowsFor(e.sub) :
                  i < j /\ csv_rows[i].sensor_type # csv_rows[j].sensor_type

====
